---- MODULE Spec2Model ----
(***************************************************************************)
(* Expectimax move search for 2048 (search2048/src/lib.rs).                *)
(*                                                                         *)
(* A board is a 4x4 array of u16 face values (0 = empty).  f64 scores are  *)
(* modelled as fixed-point numbers in thousandths (the weight tables have   *)
(* three decimals, so every leaf evaluation is exact); the only rounding   *)
(* is the floor taken by the chance-node average.  Arrays are 1-based       *)
(* sequences: cell [r][c] of the source is board[r + 1][c + 1], the flat    *)
(* index 4r + c is k = 4r + c + 1.  Direction codes stay 0..3.             *)
(***************************************************************************)
EXTENDS Integers, Sequences, FiniteSets, TLC

\* ---------------------------------------------------------------- bounds
\* largest rank of the ordinary tiles drawn for the line-slide inputs
MaxLowRank == 3
\* largest caller depth drawn for every board
MaxDepth == 2
\* the caller depth of the one deep search
DeepDepth == 5
\* the spawn-cell inputs: boards of at most MaxTiles tiles, or with at most
\* MaxHoles empty cells
MaxTiles == 5
MaxHoles == 3

\* ------------------------------------------------------- program constants
MAX_CHANCE_CELLS == 6
\* the cache is wholesale-cleared when it holds more than 1 << 21 entries
TT_CEILING == 2097152
\* u16 cells: values are taken modulo 2^16
U16_MOD == 65536
\* thousandths per unit of an f64 score
Scale == 1000

\* 1.5^n snake weights, in thousandths
WEIGHT_MATRICES ==
  << << <<   1000,   1500,   2250,   3375 >>,
        <<  17086,  11391,   7594,   5063 >>,
        <<  25629,  38443,  57665,  86498 >>,
        << 437894, 291929, 194620, 129746 >> >>,
     << <<   3375,   2250,   1500,   1000 >>,
        <<   5063,   7594,  11391,  17086 >>,
        <<  86498,  57665,  38443,  25629 >>,
        << 129746, 194620, 291929, 437894 >> >>,
     << << 437894, 291929, 194620, 129746 >>,
        <<  25629,  38443,  57665,  86498 >>,
        <<  17086,  11391,   7594,   5063 >>,
        <<   1000,   1500,   2250,   3375 >> >>,
     << << 129746, 194620, 291929, 437894 >>,
        <<  86498,  57665,  38443,  25629 >>,
        <<   5063,   7594,  11391,  17086 >>,
        <<   3375,   2250,   1500,   1000 >> >>,
     << << 437894,  25629,  17086,   1000 >>,
        << 291929,  38443,  11391,   1500 >>,
        << 194620,  57665,   7594,   2250 >>,
        << 129746,  86498,   5063,   3375 >> >>,
     << <<   1000,  17086,  25629, 437894 >>,
        <<   1500,  11391,  38443, 291929 >>,
        <<   2250,   7594,  57665, 194620 >>,
        <<   3375,   5063,  86498, 129746 >> >>,
     << << 129746,  86498,   5063,   3375 >>,
        << 194620,  57665,   7594,   2250 >>,
        << 291929,  38443,  11391,   1500 >>,
        << 437894,  25629,  17086,   1000 >> >>,
     << <<   3375,   5063,  86498, 129746 >>,
        <<   2250,   7594,  57665, 194620 >>,
        <<   1500,  11391,  38443, 291929 >>,
        <<   1000,  17086,  25629, 437894 >> >> >>

\* ----------------------------------------------------------------- helpers
Idx == 1..4
Cells == 1..16
Dirs == 0..3

RowOf(k) == ((k - 1) \div 4) + 1
ColOf(k) == ((k - 1) % 4) + 1

Abs(x) == IF x < 0 THEN -x ELSE x
Max2(a, b) == IF a > b THEN a ELSE b
Min2(a, b) == IF a < b THEN a ELSE b

\* the sequence f with every element computed
Materialize(f) == f \o <<>>

RECURSIVE SumTo(_, _)
\* f[1] + ... + f[k]
SumTo(f, k) == IF k < 1 THEN 0 ELSE f[k] + SumTo(f, k - 1)

RECURSIVE Pow2(_)
Pow2(n) == IF n = 0 THEN 1 ELSE 2 * Pow2(n - 1)

RECURSIVE Log2(_)
\* (v as f64).log2() truncated; exact on powers of two
Log2(v) == IF v <= 1 THEN 0 ELSE 1 + Log2(v \div 2)

\* log2v: 0.0 for an empty cell, else log2 of the face value (as a rank)
log2v(v) == IF v = 0 THEN 0 ELSE Log2(v)

\* the cells in row-major order
Flat(board) == board[1] \o board[2] \o board[3] \o board[4]

\* board_hash: one nibble per cell, row-major; the 64-bit word is kept as
\* its 16 nibbles
board_hash(board) ==
  LET f == Flat(board)
  IN Materialize([k \in Cells |->
       LET v == f[k]
           bits == IF v = 0 THEN 0 ELSE Log2(v)
       IN bits % 16])

\* ----------------------------------------------------------- compress_line
\* the non-zero tiles of the line in order: tiles[0..tc) of the source
Tiles(line) == SelectSeq(line, LAMBDA v : v # 0)

RECURSIVE MergeLoop(_, _, _, _, _, _)
\* the while loop of compress_line, i and out counted from 0 as in the
\* source; tiles[i] * 2 overflows u16 for 32768: a debug build panics, a
\* release build wraps
MergeLoop(tiles, i, out, merged, score, build) ==
  IF i >= Len(tiles)
  THEN [merged |-> merged, score |-> score, panic |-> FALSE]
  ELSE IF i + 1 < Len(tiles) /\ tiles[i + 1] = tiles[i + 2]
       THEN IF tiles[i + 1] * 2 >= U16_MOD /\ build = "debug"
            THEN [merged |-> merged, score |-> score, panic |-> TRUE]
            ELSE LET m == (tiles[i + 1] * 2) % U16_MOD
                 IN MergeLoop(tiles, i + 2, out + 1,
                              [merged EXCEPT ![out + 1] = m],
                              score + m * Scale, build)
       ELSE MergeLoop(tiles, i + 1, out + 1,
                      [merged EXCEPT ![out + 1] = tiles[i + 1]], score, build)

compress_line(line, build) ==
  MergeLoop(Tiles(line), 0, 0, <<0, 0, 0, 0>>, 0, build)

\* ----------------------------------------------------------- simulate_move
Rev(l) == <<l[4], l[3], l[2], l[1]>>
Column(nb, i) == <<nb[1][i], nb[2][i], nb[3][i], nb[4][i]>>

\* the board with column i replaced
WithColumn(nb, i, new) ==
  << [nb[1] EXCEPT ![i] = new[1]], [nb[2] EXCEPT ![i] = new[2]],
     [nb[3] EXCEPT ![i] = new[3]], [nb[4] EXCEPT ![i] = new[4]] >>

\* variant: the slide result is compared before it is reversed back
MovedFromUnreversed(res, new, orig) == res # orig

\* the line compared with the slide result to set moved
MovedFrom(res, new, orig) == new # orig

\* one iteration of the for loop: line i of the board in direction dir
MoveLine(st, dir, i, build) ==
  LET nb == st.board
      orig == IF dir \in {0, 1} THEN Column(nb, i) ELSE nb[i]
      line == IF dir \in {1, 3} THEN Rev(orig) ELSE orig
      cl == compress_line(line, build)
      res == cl.merged
      new == IF dir \in {1, 3} THEN Rev(res) ELSE res
      nb2 == IF dir \in {0, 1} THEN WithColumn(nb, i, new)
             ELSE [nb EXCEPT ![i] = new]
  IN IF st.panic \/ cl.panic
     THEN [st EXCEPT !.panic = TRUE]
     ELSE [board |-> nb2, total |-> st.total + cl.score,
           moved |-> st.moved \/ MovedFrom(res, new, orig), panic |-> FALSE]

simulate_move(board, dir, build) ==
  LET s0 == [board |-> board, total |-> 0, moved |-> FALSE, panic |-> FALSE]
      s1 == MoveLine(s0, dir, 1, build)
      s2 == MoveLine(s1, dir, 2, build)
      s3 == MoveLine(s2, dir, 3, build)
  IN MoveLine(s3, dir, 4, build)

\* ---------------------------------------------------------------- evaluate
\* log2v of every cell
Logs(f) == Materialize([k \in Cells |-> log2v(f[k])])

\* 1) snake pattern: the sum of lv * lv * w[r][c] for one orientation ...
SnakeOf(lv, w) ==
  SumTo([k \in Cells |-> lv[k] * lv[k] * w[RowOf(k)][ColOf(k)]], 16)

RECURSIVE SnakeMax(_, _)
\* ... and the best of the first n orientations
SnakeMax(lv, n) ==
  IF n = 1 THEN SnakeOf(lv, WEIGHT_MATRICES[1])
  ELSE Max2(SnakeOf(lv, WEIGHT_MATRICES[n]), SnakeMax(lv, n - 1))

\* 2) empty cells
EmptyCount(f) == Cardinality({k \in Cells : f[k] = 0})

EmptyScore(f) ==
  LET empty == EmptyCount(f)
  IN CASE empty = 0 -> -800000 * Scale
       [] empty = 1 -> 3000 * Scale
       [] empty = 2 -> 12000 * Scale
       [] OTHER -> empty * empty * 2000 * Scale

\* 3) max tile in a corner, on an edge, or inside
MaxTile(f) == CHOOSE v \in {f[k] : k \in Cells} : \A k \in Cells : f[k] <= v

InCorner(f, mt) == mt \in {f[1], f[4], f[13], f[16]}

CornerScore(f, mt) ==
  LET mt_log == log2v(mt)
      on_edge == \/ \E c \in Idx : f[c] = mt
                 \/ \E c \in Idx : f[12 + c] = mt
                 \/ \E r \in Idx : f[4 * r - 3] = mt
                 \/ \E r \in Idx : f[4 * r] = mt
  IN IF InCorner(f, mt) THEN mt_log * mt_log * 500 * Scale
     ELSE IF on_edge THEN -(mt_log * mt_log * 1000 * Scale)
     ELSE -(mt_log * mt_log * 3000 * Scale)

\* 4) scatter penalty: equal tiles >= 64 that are not adjacent
ScatterPenalty(f, lv) ==
  LET pos == {k \in Cells : f[k] >= 64}
      far == {pq \in pos \X pos :
                /\ pq[1] < pq[2]
                /\ f[pq[1]] = f[pq[2]]
                /\ Abs(RowOf(pq[1]) - RowOf(pq[2]))
                   + Abs(ColOf(pq[1]) - ColOf(pq[2])) # 1}
  IN -SumTo([p \in Cells |->
               Cardinality({pq \in far : pq[1] = p}) * lv[p] * lv[p]
               * 2000 * Scale], 16)

\* 5) monotonicity of the line lv[a], lv[a + s], lv[a + 2s], lv[a + 3s]
MonoLine(lv, a, s) ==
  LET cur(c) == lv[a + c * s]
      nxt(c) == lv[a + (c + 1) * s]
      d(c) == IF cur(c) > nxt(c) THEN nxt(c) - cur(c) ELSE 0
      n(c) == IF cur(c) > nxt(c) THEN 0 ELSE cur(c) - nxt(c)
      inc == n(0) + n(1) + n(2)
      dec == d(0) + d(1) + d(2)
  IN Max2(inc, dec)

Mono(lv) ==
  SumTo([r \in Idx |-> MonoLine(lv, 4 * r - 3, 1)], 4)
  + SumTo([c \in Idx |-> MonoLine(lv, c, 4)], 4)

\* 6) smoothness of one line
SmoothLine(lv, a, s) ==
  LET cur(c) == lv[a + c * s]
      nxt(c) == lv[a + (c + 1) * s]
      sm(c) == IF cur(c) # 0 /\ nxt(c) # 0 THEN -Abs(cur(c) - nxt(c)) ELSE 0
  IN sm(0) + sm(1) + sm(2)

Smooth(lv) ==
  SumTo([r \in Idx |-> SmoothLine(lv, 4 * r - 3, 1)], 4)
  + SumTo([c \in Idx |-> SmoothLine(lv, c, 4)], 4)

\* 7) merge potential
Merges(f, lv) ==
  SumTo([k \in Cells |->
           LET v == f[k]
               weight == IF v >= 256 THEN lv[k] * lv[k] * lv[k]
                         ELSE lv[k] * lv[k]
           IN IF v = 0 THEN 0
              ELSE (IF ColOf(k) < 4 /\ f[k + 1] = v THEN weight ELSE 0)
                   + (IF RowOf(k) < 4 /\ f[k + 4] = v THEN weight ELSE 0)],
        16)

\* 8) chain bonus: descending neighbours from the max tile in a corner
Neighbors == << <<-1, 0>>, <<1, 0>>, <<0, -1>>, <<0, 1>> >>

\* the first neighbour (in the order of Neighbors) holding target, or 0
ChainNext(f, cur_r, cur_c, target) ==
  LET ok(n) == LET nr == cur_r + Neighbors[n][1]
                   nc == cur_c + Neighbors[n][2]
               IN /\ nr >= 1 /\ nr <= 4 /\ nc >= 1 /\ nc <= 4
                  /\ f[4 * (nr - 1) + nc] = target
  IN IF \E n \in 1..4 : ok(n)
     THEN CHOOSE n \in 1..4 : ok(n) /\ \A m \in 1..(n - 1) : ~ok(m)
     ELSE 0

RECURSIVE ChainLoop(_, _, _, _, _, _)
\* the 'chain loop: returns the chain length and the bonus collected
ChainLoop(f, cur_r, cur_c, cur_val, chain_len, bonus) ==
  LET target == cur_val \div 2
      n == IF target = 0 THEN 0 ELSE ChainNext(f, cur_r, cur_c, target)
  IN IF n = 0
     THEN [len |-> chain_len, bonus |-> bonus]
     ELSE ChainLoop(f, cur_r + Neighbors[n][1], cur_c + Neighbors[n][2],
                    target, chain_len + 1,
                    bonus + log2v(target) * log2v(target) * 500 * Scale)

CornerPos == << <<1, 1>>, <<1, 4>>, <<4, 1>>, <<4, 4>> >>

RECURSIVE ChainCorners(_, _, _)
\* the loop over the corners: the first corner holding the max tile that
\* starts a non-empty chain decides
ChainCorners(f, mt, k) ==
  IF k > 4 THEN 0
  ELSE LET cr == CornerPos[k][1]
           cc == CornerPos[k][2]
       IN IF f[4 * (cr - 1) + cc] # mt THEN ChainCorners(f, mt, k + 1)
          ELSE LET ch == ChainLoop(f, cr, cc, mt, 0, 0)
               IN IF ch.len > 0 THEN ch.bonus
                  ELSE ChainCorners(f, mt, k + 1)

ChainBonus(f, mt) ==
  IF InCorner(f, mt) /\ mt >= 64 THEN ChainCorners(f, mt, 1) ELSE 0

evaluate(board) ==
  LET f == Flat(board)
      lv == Logs(f)
      mt == MaxTile(f)
  IN SnakeMax(lv, 8) * 5 + EmptyScore(f) + CornerScore(f, mt)
     + ScatterPenalty(f, lv) + Mono(lv) * 600 * Scale
     + Smooth(lv) * 250 * Scale + Merges(f, lv) * 800 * Scale
     + ChainBonus(f, mt)

\* ------------------------------------------- expectimax: the chance cells
AllCells ==
  << <<1, 1>>, <<1, 2>>, <<1, 3>>, <<1, 4>>,
     <<2, 1>>, <<2, 2>>, <<2, 3>>, <<2, 4>>,
     <<3, 1>>, <<3, 2>>, <<3, 3>>, <<3, 4>>,
     <<4, 1>>, <<4, 2>>, <<4, 3>>, <<4, 4>> >>

\* the empty cells in row-major scan order
EmptyCells(board) == SelectSeq(AllCells, LAMBDA p : board[p[1]][p[2]] = 0)

AdjOffsets == << <<0, 1>>, <<0, -1>>, <<1, 0>>, <<-1, 0>> >>

\* the number of occupied orthogonal neighbours of (r, c)
Adj(board, r, c) ==
  Cardinality({n \in 1..4 :
     LET nr == r + AdjOffsets[n][1]
         nc == c + AdjOffsets[n][2]
     IN /\ nr >= 1 /\ nr <= 4 /\ nc >= 1 /\ nc <= 4
        /\ board[nr][nc] > 0})

\* variant: the neighbour count is not negated
ScoredKeyAscending(board, r, c) == <<Adj(board, r, c), r, c>>

\* the sort key of an empty cell
ScoredKey(board, r, c) == <<-Adj(board, r, c), r, c>>

\* variant: the column is compared before the row
TupleLessColumnFirst(a, b) ==
  \/ a[1] < b[1]
  \/ a[1] = b[1] /\ a[3] < b[3]
  \/ a[1] = b[1] /\ a[3] = b[3] /\ a[2] < b[2]

\* the order of (i32, usize, usize) tuples
TupleLess(a, b) ==
  \/ a[1] < b[1]
  \/ a[1] = b[1] /\ a[2] < b[2]
  \/ a[1] = b[1] /\ a[2] = b[2] /\ a[3] < b[3]

\* the cells a chance node spawns into
ChanceCells(board) ==
  LET empty == EmptyCells(board)
      scored == Materialize([k \in 1..Len(empty) |->
                   ScoredKey(board, empty[k][1], empty[k][2])])
      sorted == SortSeq(scored, TupleLess)
  IN IF Len(empty) > MAX_CHANCE_CELLS
     THEN Materialize([k \in 1..MAX_CHANCE_CELLS |->
                         <<sorted[k][2], sorted[k][3]>>])
     ELSE empty

\* the spawned tile and its probability in tenths
Spawns == << <<2, 9>>, <<4, 1>> >>

RECURSIVE WeightedSum(_, _, _, _)
\* sum over vals[1..k] of prob * (value div den) when quot, else of
\* prob * (value mod den); prob in tenths
WeightedSum(vals, k, den, quot) ==
  IF k = 0 THEN 0
  ELSE vals[k][1] * (IF quot THEN vals[k][2] \div den ELSE vals[k][2] % den)
       + WeightedSum(vals, k - 1, den, quot)

\* total / cells.len(): the sum of prob * value over the children divided by
\* the number of cells, rounded down to a thousandth; split into quotient
\* and remainder so that no intermediate exceeds the 32-bit range
ChanceResult(vals, ncells) ==
  LET den == 10 * ncells
  IN WeightedSum(vals, Len(vals), den, TRUE)
     + (WeightedSum(vals, Len(vals), den, FALSE) \div den)

EmptyTT == <<>>

\* the cached depth of a key, -1 when absent
StoredDepth(tt, h) == IF h \in DOMAIN tt THEN tt[h].d ELSE -1

\* variant: any stored entry answers
CacheValidAnyDepth(d, depth) == d >= 0

\* variant: an entry of exactly the requested depth does not answer
CacheValidStrict(d, depth) == d > depth

\* a lookup may return the stored score
CacheValid(d, depth) == d >= depth

\* t.insert(h, (depth, result)), then the wholesale eviction
TTInsert(tt, h, depth, result) ==
  LET t == (h :> [d |-> depth, s |-> result]) @@ tt
  IN IF Cardinality(DOMAIN t) > TT_CEILING THEN EmptyTT ELSE t

\* ----------------------------------------------------- search_ranked_moves
\* the 16 face values behind board_ptr as a Board
BoardOf(board_flat) ==
  << SubSeq(board_flat, 1, 4), SubSeq(board_flat, 5, 8),
     SubSeq(board_flat, 9, 12), SubSeq(board_flat, 13, 16) >>

\* the depth the root chance nodes are searched at
SearchDepth(board, depth) == depth

\* variant: the table is kept across calls
ClearTTKeep(tt) == tt

\* TT.with(|tt| tt.borrow_mut().clear())
ClearTT(tt) == EmptyTT

\* variant: equal scores are swapped as well
SortBeforeOrEqual(a, b) == a[1] >= b[1]

\* a goes before b: b.0.partial_cmp(&a.0) is Less
SortBefore(a, b) == a[1] > b[1]

RECURSIVE InsertSorted(_, _)
\* x placed behind every element that does not have to follow it
InsertSorted(s, x) ==
  IF Len(s) = 0 THEN <<x>>
  ELSE IF SortBefore(x, s[Len(s)])
       THEN Append(InsertSorted(SubSeq(s, 1, Len(s) - 1), x), s[Len(s)])
       ELSE Append(s, x)

RECURSIVE SortMoves(_, _)
\* moves.sort_by(..): a stable sort of moves[1..k]
SortMoves(moves, k) ==
  IF k = 0 THEN <<>> ELSE InsertSorted(SortMoves(moves, k - 1), moves[k])

\* ------------------------------------------------------------------ state
VARIABLES
  build,        \* "debug" (overflow checks on) or "release" (wrapping)
  pc,           \* "idle", "running" (inside a call) or "aborted" (a panic
                \* reached the extern "C" boundary: the process died)
  stack,        \* the activation records of the running call, innermost last
  tt,           \* the thread-local table TT: board hash -> (depth, score)
  scores_out,   \* the caller's score buffer, zeroed before each call
  dirs_out,     \* the caller's direction buffer, zeroed before each call
  ret,          \* the count returned by the last completed call
  call,         \* <<board_flat, depth>> of the last call, <<>> before it
  ev,           \* what the last step did to the table (observer)
  ref,          \* an earlier call remembered for comparison, <<>> if none
  line,         \* line-slide check: the input line
  line_res,     \* line-slide check: what compress_line returned, <<>> before
  chance_in,    \* spawn-cell check: the board a move is applied to
  chance        \* spawn-cell check: the chance board and its cells, <<>> before

vars == <<build, pc, stack, tt, scores_out, dirs_out, ret, call, ev, ref,
          line, line_res, chance_in, chance>>

searchVars == <<pc, stack, tt, scores_out, dirs_out, ret, call, ev, ref>>
lineVars == <<line, line_res>>
chanceVars == <<chance_in, chance>>

Builds == {"debug", "release"}

ZeroLine == <<0, 0, 0, 0>>
ZeroBoard == <<ZeroLine, ZeroLine, ZeroLine, ZeroLine>>

\* ----------------------------------------------------------------- inputs
\* full, no two equal neighbours: no direction moves
StuckBoard == << 2, 4, 2, 4,   4, 2, 4, 2,   2, 4, 2, 4,   4, 2, 4, 2 >>
\* five distinct ranks; Down and Right move
FiveBoard == << 2, 4, 8, 16,   32, 2, 4, 8,   16, 32, 2, 4,   8, 16, 32, 0 >>
\* symmetric about the main diagonal: Down and Right move and score the same
TieBoard == << 2, 4, 8, 16,   4, 8, 16, 32,   8, 16, 32, 2,   16, 32, 2, 0 >>
\* all four directions move
FourBoard == << 2, 2, 4, 8,   4, 8, 2, 4,   2, 4, 8, 2,   2, 8, 2, 4 >>
\* Left and Right move; at depth 5 positions recur two plies apart
DeepBoard == << 2, 8, 4, 2,   4, 2, 8, 4,   8, 4, 2, 8,   2, 8, 4, 4 >>
\* full, the only equal neighbours are the two 32768 of the first column
TopBoard == << 32768, 2, 4, 2,   32768, 4, 2, 4,   2, 8, 4, 2,   4, 2, 8, 4 >>

Boards == {StuckBoard, FiveBoard, FourBoard, DeepBoard, TopBoard}

Inputs ==
  (Boards \X (1..MaxDepth)) \cup {<<DeepBoard, DeepDepth>>, <<TieBoard, 1>>}

NoEvent == [op |-> "none", stored |-> -1, depth |-> -1]

InitSearch ==
  /\ pc = "idle"
  /\ stack = <<>>
  /\ tt = EmptyTT
  /\ scores_out = ZeroLine
  /\ dirs_out = ZeroLine
  /\ ret = 0
  /\ call = <<>>
  /\ ev = NoEvent
  /\ ref = <<>>

InitLineIdle == line = ZeroLine /\ line_res = <<>>
InitChanceIdle == chance_in = ZeroBoard /\ chance = <<>>

Init ==
  /\ build \in Builds
  /\ InitSearch
  /\ InitLineIdle
  /\ InitChanceIdle

\* ------------------------------------------------------ activation records
Top == stack[Len(stack)]
Rest == SubSeq(stack, 1, Len(stack) - 1)

\* expectimax(board, depth, is_max) about to run
CallFrame(board, depth, is_max) ==
  [fn |-> "call", board |-> board, depth |-> depth, is_max |-> is_max]

NoBest == [fin |-> FALSE, v |-> 0]

\* what a frame does with the value its callee returns
Receive(f, value) ==
  CASE f.fn = "root" ->
         \* moves.push((score, d))
         [f EXCEPT !.moves = Append(@, <<value + f.ms, f.d>>), !.d = @ + 1]
    [] f.fn = "max" ->
         \* let v = expectimax(..) + ms; if v > best { best = v; }
         [f EXCEPT !.best = IF ~f.best.fin \/ value + f.ms > f.best.v
                            THEN [fin |-> TRUE, v |-> value + f.ms] ELSE @,
                   !.d = @ + 1]
    [] f.fn = "chance" ->
         \* total += prob * expectimax(..)
         [f EXCEPT !.vals = Append(@, <<Spawns[2 - (f.k % 2)][2], value>>),
                   !.k = @ + 1]

\* the stack after the innermost frame returned value
Return(value) ==
  LET n == Len(stack) - 1
  IN [stack EXCEPT ![n] = Receive(@, value)] \o <<>>

Returned(value) == SubSeq(Return(value), 1, Len(stack) - 1)

\* ----------------------------------------------------- search_ranked_moves
\* lines 405-414: the board is read, the table cleared, the loop set up
srm_enter(inp) ==
  /\ pc = "idle"
  /\ pc' = "running"
  /\ call' = inp
  /\ tt' = ClearTT(tt)
  /\ stack' = << [fn |-> "root", board |-> BoardOf(inp[1]), depth |-> inp[2],
                  d |-> 0, ms |-> 0, moves |-> <<>>] >>
  /\ scores_out' = ZeroLine
  /\ dirs_out' = ZeroLine
  /\ ret' = 0
  /\ ev' = [op |-> "clear", stored |-> -1, depth |-> -1]
  /\ ref' = IF ref = <<>> THEN ref ELSE [ref EXCEPT !.fresh = FALSE]
  /\ UNCHANGED <<build, lineVars, chanceVars>>

\* lines 415-420: one iteration of for d in 0..4u8
srm_move ==
  /\ pc = "running"
  /\ Top.fn = "root"
  /\ Top.d <= 3
  /\ LET sm == simulate_move(Top.board, Top.d, build)
     IN IF sm.panic
        THEN pc' = "aborted" /\ UNCHANGED stack
        ELSE /\ pc' = pc
             /\ stack' =
                  IF ~sm.moved
                  THEN [stack EXCEPT ![Len(stack)].d = @ + 1]
                  ELSE Append([stack EXCEPT ![Len(stack)].ms = sm.total],
                              CallFrame(sm.board,
                                        SearchDepth(Top.board, Top.depth),
                                        FALSE))
  /\ ev' = NoEvent
  /\ UNCHANGED <<build, tt, scores_out, dirs_out, ret, call, ref,
                 lineVars, chanceVars>>

\* lines 421-430: sort, write the first n entries, return n
srm_return(keep) ==
  /\ pc = "running"
  /\ Top.fn = "root"
  /\ Top.d > 3
  /\ LET moves == SortMoves(Top.moves, Len(Top.moves))
         n == Min2(Len(moves), 4)
     IN /\ scores_out' = Materialize([i \in Idx |->
                            IF i <= n THEN moves[i][1] ELSE scores_out[i]])
        /\ dirs_out' = Materialize([i \in Idx |->
                            IF i <= n THEN moves[i][2] ELSE dirs_out[i]])
        /\ ret' = n
  /\ pc' = "idle"
  /\ stack' = <<>>
  /\ ev' = NoEvent
  /\ ref' = IF keep
            THEN [call |-> call, ret |-> ret', scores |-> scores_out',
                  dirs |-> dirs_out', fresh |-> TRUE]
            ELSE ref
  /\ UNCHANGED <<build, tt, call, lineVars, chanceVars>>

\* -------------------------------------------------------------- expectimax
\* lines 315-317 and 349-351: the static evaluation is returned at depth 0,
\* and at a chance node without an empty cell that the table cannot answer
expectimax_leaf ==
  /\ pc = "running"
  /\ Top.fn = "call"
  /\ \/ Top.depth = 0
     \/ /\ ~Top.is_max
        /\ ~CacheValid(StoredDepth(tt, board_hash(Top.board)), Top.depth)
        /\ Len(EmptyCells(Top.board)) = 0
  /\ stack' = Returned(evaluate(Top.board))
  /\ ev' = NoEvent
  /\ UNCHANGED <<build, pc, tt, scores_out, dirs_out, ret, call, ref,
                 lineVars, chanceVars>>

\* lines 320-329: a chance node answered from the table
expectimax_cached ==
  /\ pc = "running"
  /\ Top.fn = "call"
  /\ Top.depth # 0
  /\ ~Top.is_max
  /\ LET h == board_hash(Top.board)
     IN /\ h \in DOMAIN tt
        /\ CacheValid(tt[h].d, Top.depth)
        /\ stack' = Returned(tt[h].s)
        /\ ev' = [op |-> "hit", stored |-> tt[h].d, depth |-> Top.depth]
  /\ UNCHANGED <<build, pc, tt, scores_out, dirs_out, ret, call, ref,
                 lineVars, chanceVars>>

\* lines 331-332: a max node starts its loop
expectimax_max ==
  /\ pc = "running"
  /\ Top.fn = "call"
  /\ Top.depth # 0
  /\ Top.is_max
  /\ stack' = [stack EXCEPT ![Len(stack)] =
                 [fn |-> "max", board |-> Top.board, depth |-> Top.depth,
                  d |-> 0, ms |-> 0, best |-> NoBest]]
  /\ ev' = NoEvent
  /\ UNCHANGED <<build, pc, tt, scores_out, dirs_out, ret, call, ref,
                 lineVars, chanceVars>>

\* lines 333-338: one iteration of for d in 0..4u8
max_move ==
  /\ pc = "running"
  /\ Top.fn = "max"
  /\ Top.d <= 3
  /\ LET sm == simulate_move(Top.board, Top.d, build)
     IN IF sm.panic
        THEN pc' = "aborted" /\ UNCHANGED stack
        ELSE /\ pc' = pc
             /\ stack' =
                  IF ~sm.moved
                  THEN [stack EXCEPT ![Len(stack)].d = @ + 1]
                  ELSE Append([stack EXCEPT ![Len(stack)].ms = sm.total],
                              CallFrame(sm.board, Top.depth - 1, FALSE))
  /\ ev' = NoEvent
  /\ UNCHANGED <<build, tt, scores_out, dirs_out, ret, call, ref,
                 lineVars, chanceVars>>

\* line 339: the best move value, or the static evaluation of a dead board
max_return ==
  /\ pc = "running"
  /\ Top.fn = "max"
  /\ Top.d > 3
  /\ stack' = Returned(IF Top.best.fin THEN Top.best.v
                       ELSE evaluate(Top.board))
  /\ ev' = NoEvent
  /\ UNCHANGED <<build, pc, tt, scores_out, dirs_out, ret, call, ref,
                 lineVars, chanceVars>>

\* lines 320-329 and 341-371: the table cannot answer, the cells are chosen
expectimax_chance ==
  /\ pc = "running"
  /\ Top.fn = "call"
  /\ Top.depth # 0
  /\ ~Top.is_max
  /\ ~CacheValid(StoredDepth(tt, board_hash(Top.board)), Top.depth)
  /\ Len(EmptyCells(Top.board)) # 0
  /\ stack' = [stack EXCEPT ![Len(stack)] =
                 [fn |-> "chance", board |-> Top.board, depth |-> Top.depth,
                  cells |-> ChanceCells(Top.board), k |-> 1, vals |-> <<>>]]
  /\ ev' = [op |-> "search",
            stored |-> StoredDepth(tt, board_hash(Top.board)),
            depth |-> Top.depth]
  /\ UNCHANGED <<build, pc, tt, scores_out, dirs_out, ret, call, ref,
                 lineVars, chanceVars>>

\* lines 372-378: one (cell, tile) pair of the nested loops, k counting the
\* pairs from 1
chance_spawn ==
  /\ pc = "running"
  /\ Top.fn = "chance"
  /\ Top.k <= 2 * Len(Top.cells)
  /\ LET cell == Top.cells[(Top.k + 1) \div 2]
         val == Spawns[2 - (Top.k % 2)][1]
         nb == [Top.board EXCEPT ![cell[1]][cell[2]] = val]
     IN stack' = Append(stack, CallFrame(nb, Top.depth - 1, TRUE))
  /\ ev' = NoEvent
  /\ UNCHANGED <<build, pc, tt, scores_out, dirs_out, ret, call, ref,
                 lineVars, chanceVars>>

\* lines 379-392: the average is stored in the table and returned
chance_return ==
  /\ pc = "running"
  /\ Top.fn = "chance"
  /\ Top.k > 2 * Len(Top.cells)
  /\ LET h == board_hash(Top.board)
         result == ChanceResult(Top.vals, Len(Top.cells))
     IN /\ tt' = TTInsert(tt, h, Top.depth, result)
        /\ stack' = Returned(result)
        /\ ev' = [op |-> "insert", stored |-> StoredDepth(tt, h),
                  depth |-> Top.depth]
  /\ UNCHANGED <<build, pc, scores_out, dirs_out, ret, call, ref,
                 lineVars, chanceVars>>

Next ==
  \/ \E inp \in Inputs : srm_enter(inp)
  \/ srm_move
  \/ \E keep \in BOOLEAN : srm_return(keep)
  \/ expectimax_leaf
  \/ expectimax_cached
  \/ expectimax_max
  \/ expectimax_chance
  \/ max_move
  \/ max_return
  \/ chance_spawn
  \/ chance_return

Spec == Init /\ [][Next]_vars

\* ------------------------------------------- compress_line on its own
LineTiles == {0, 16384, 32768} \cup {Pow2(k) : k \in 1..MaxLowRank}

InitLine ==
  /\ build \in Builds
  /\ line \in LineTiles \X LineTiles \X LineTiles \X LineTiles
  /\ line_res = <<>>
  /\ InitSearch
  /\ InitChanceIdle

\* let (res, sc) = compress_line(&line)
compress_step ==
  /\ line_res = <<>>
  /\ line_res' = compress_line(line, build)
  /\ UNCHANGED <<build, line, searchVars, chanceVars>>

NextLine == compress_step

SpecLine == InitLine /\ [][NextLine]_vars

\* --------------------------------- the cells of a chance node on its own
\* tiles that never equal a neighbour while they stay in place
CheckerTile(k) == IF (RowOf(k) + ColOf(k)) % 2 = 0 THEN 2 ELSE 4

\* the board holding its checker tile exactly on the cells of occ
CheckerBoard(occ) ==
  BoardOf(Materialize([k \in Cells |-> IF k \in occ THEN CheckerTile(k) ELSE 0]))

ChanceInputs ==
  {CheckerBoard(occ) : occ \in {o \in SUBSET Cells :
       Cardinality(o) <= MaxTiles \/ Cardinality(o) >= 16 - MaxHoles}}

InitCells ==
  /\ build \in Builds
  /\ chance_in \in ChanceInputs
  /\ chance = <<>>
  /\ InitSearch
  /\ InitLineIdle

\* a move that changes the board, then lines 341-369 on the board it gives
chance_cells(dir) ==
  /\ chance = <<>>
  /\ simulate_move(chance_in, dir, build).moved
  /\ ~simulate_move(chance_in, dir, build).panic
  /\ chance' = [board |-> simulate_move(chance_in, dir, build).board,
                cells |-> ChanceCells(simulate_move(chance_in, dir, build).board)]
  /\ UNCHANGED <<build, chance_in, searchVars, lineVars>>

NextCells == \E dir \in Dirs : chance_cells(dir)

SpecCells == InitCells /\ [][NextCells]_vars

\* ================================================================ claims
Returned0 == pc = "idle" /\ call # <<>>

\* the number of distinct non-zero ranks among the 16 face values
DistinctRanks(board_flat) ==
  Cardinality({log2v(board_flat[k]) : k \in Cells} \ {0})

\* the frames of the searches started by the entry point itself
RootSearches == {i \in 2..Len(stack) : stack[i - 1].fn = "root"}

\* C1: every legal move of a top-level call is searched at a depth that is
\* at least the caller's depth and at least (distinct non-zero ranks) - 2.
C1_AdaptiveDepth ==
  pc = "running" =>
    \A i \in RootSearches :
      /\ stack[i].depth >= call[2]
      /\ stack[i].depth >= DistinctRanks(call[1]) - 2

\* the directions whose move changes the board
ChangingDirs(board, b) ==
  {d \in Dirs : simulate_move(board, d, b).board # board}

\* C2: the returned count is the number of directions whose move changes
\* the board, and the first count direction entries are exactly those
\* directions, each once; a stuck full board returns 0.
C2_LegalMoveCount ==
  Returned0 =>
    LET legal == ChangingDirs(BoardOf(call[1]), build)
    IN /\ ret \in 0..4
       /\ ret = Cardinality(legal)
       /\ {dirs_out[i] : i \in 1..ret} = legal
       /\ \A i, j \in 1..ret : i # j => dirs_out[i] # dirs_out[j]

C2_Witness ==
  /\ Returned0
  /\ \/ call[1] = StuckBoard /\ ret = 0
     \/ call[1] = FourBoard /\ ret = 4
     \/ call[1] = DeepBoard /\ ret = 2

\* C3: the entries written are in non-increasing order of score, and moves
\* of equal score appear in the enumeration order Up, Down, Left, Right.
C3_SortedStable ==
  Returned0 =>
    \A i, j \in 1..ret :
      i < j => \/ scores_out[i] > scores_out[j]
               \/ scores_out[i] = scores_out[j] /\ dirs_out[i] < dirs_out[j]

C3_Witness ==
  /\ Returned0
  /\ ret = 2
  /\ scores_out[1] = scores_out[2]
  /\ dirs_out = <<1, 3, 0, 0>>

\* C4: a call with the board and depth of a remembered earlier call returns
\* the same count, directions and scores, whatever calls came in between;
\* every call starts from an empty table.
C4_Repeatable ==
  /\ [](Returned0 /\ ref # <<>> =>
          (call = ref.call =>
             /\ ret = ref.ret
             /\ dirs_out = ref.dirs
             /\ scores_out = ref.scores))
  /\ [][pc = "idle" /\ pc' = "running" => tt' = EmptyTT]_vars

C4_Witness ==
  /\ Returned0
  /\ ref # <<>>
  /\ ~ref.fresh
  /\ call = ref.call
  /\ ret > 0
  /\ tt # EmptyTT

\* expectimax is asked about a chance state at depth >= 1
ChanceQuery ==
  /\ pc = "running"
  /\ Top.fn = "call"
  /\ ~Top.is_max
  /\ Top.depth >= 1

\* C5: a chance query at depth d is answered from the table only when the
\* entry of its board has depth >= d; when the entry is shallower, the
\* query is not answered from it but searched.
C5_CacheDepth ==
  [][ChanceQuery /\ board_hash(Top.board) \in DOMAIN tt =>
       LET h == board_hash(Top.board)
           n == Len(stack)
       IN /\ Len(stack') < n => tt[h].d >= Top.depth
          /\ tt[h].d < Top.depth =>
               /\ Len(stack') = n
               /\ stack'[n].fn = "chance"
               /\ stack'[n].board = Top.board
               /\ stack'[n].depth = Top.depth
               /\ stack'[n].vals = <<>>]_vars

C5_Witness == ev.op = "search" /\ ev.stored >= 1 /\ ev.stored < ev.depth

\* C6: a left slide never yields a tile above 32768, and two merged 32768
\* tiles give one 32768 tile, without overflow.
C6_RankCap ==
  line_res # <<>> =>
    /\ ~line_res.panic
    /\ \A k \in Idx : line_res.merged[k] <= 32768
    /\ (Len(Tiles(line)) >= 2 /\ Tiles(line)[1] = 32768
        /\ Tiles(line)[2] = 32768) => line_res.merged[1] = 32768

RECURSIVE SlideOf(_)
\* the tiles after the merges: each equal pair, left to right, becomes one
\* tile of double face value and is not merged again
SlideOf(t) ==
  IF Len(t) = 0 THEN <<>>
  ELSE IF Len(t) >= 2 /\ t[1] = t[2]
       THEN <<2 * t[1]>> \o SlideOf(SubSeq(t, 3, Len(t)))
       ELSE <<t[1]>> \o SlideOf(Tail(t))

RECURSIVE MergeScoreOf(_)
\* the sum of the face values of the merged tiles
MergeScoreOf(t) ==
  IF Len(t) < 2 THEN 0
  ELSE IF t[1] = t[2] THEN 2 * t[1] + MergeScoreOf(SubSeq(t, 3, Len(t)))
       ELSE MergeScoreOf(Tail(t))

PadLine(t) == Materialize([k \in Idx |-> IF k <= Len(t) THEN t[k] ELSE 0])

\* C7: a left slide compacts the tiles in order, merges each adjacent equal
\* pair once into a tile of double face value, and scores the sum of the
\* merged tiles; [2,2,2,2] gives [4,4,0,0], [2,2,4,4] gives [4,8,0,0] and 12.
C7_SlideMerge ==
  line_res # <<>> =>
    /\ ~line_res.panic
    /\ line_res.merged = PadLine(SlideOf(Tiles(line)))
    /\ line_res.score = MergeScoreOf(Tiles(line)) * Scale

\* a merge of two 32768 tiles happens in the slide of the line
RECURSIVE MergesTop(_)
MergesTop(t) ==
  IF Len(t) < 2 THEN FALSE
  ELSE IF t[1] = t[2] THEN t[1] = 32768 \/ MergesTop(SubSeq(t, 3, Len(t)))
       ELSE MergesTop(Tail(t))

\* what remains of C7 on the lines that merge no two 32768 tiles
SlideMergeBelowCap ==
  line_res # <<>> /\ ~MergesTop(Tiles(line)) =>
    /\ ~line_res.panic
    /\ line_res.merged = PadLine(SlideOf(Tiles(line)))
    /\ line_res.score = MergeScoreOf(Tiles(line)) * Scale
    /\ line = <<2, 2, 4, 4>> =>
         line_res.merged = <<4, 8, 0, 0>> /\ line_res.score = 12 * Scale
    /\ line = <<2, 2, 2, 2>> => line_res.merged = <<4, 4, 0, 0>>

\* the cells of the chance board as sets
ChanceEmpty == {p \in Idx \X Idx : chance.board[p[1]][p[2]] = 0}
ChanceChosen == {chance.cells[i] : i \in 1..Len(chance.cells)}
ChanceAdj(p) == Adj(chance.board, p[1], p[2])
ChancePos(p) == CHOOSE i \in 1..Len(chance.cells) : chance.cells[i] = p

CapForces == chance # <<>> /\ Cardinality(ChanceEmpty) > MAX_CHANCE_CELLS

\* C8: when the cap forces a choice, an isolated empty cell is never chosen
\* while an empty cell with three occupied neighbours is left out, and when
\* both are chosen the three-neighbour cell comes first.
C8_ThreeBeforeIsolated ==
  CapForces =>
    \A x, y \in ChanceEmpty :
      (ChanceAdj(x) = 3 /\ ChanceAdj(y) = 0 /\ y \in ChanceChosen) =>
        /\ x \in ChanceChosen
        /\ ChancePos(x) < ChancePos(y)

C8_Witness ==
  /\ CapForces
  /\ \E x, y \in ChanceEmpty :
       /\ ChanceAdj(x) = 3 /\ ChanceAdj(y) = 0
       /\ x \in ChanceChosen
       /\ \E z \in ChanceEmpty \ ChanceChosen : ChanceAdj(z) = 0

\* the empty cells as <<sgn * occupied neighbours, row, column>>
RankKeys(sgn) == {<<sgn * ChanceAdj(p), p[1], p[2]>> : p \in ChanceEmpty}

\* a is ranked before b: smaller first component, ties in row-major order
RankedBefore(a, b) ==
  \/ a[1] < b[1]
  \/ a[1] = b[1] /\ a[2] < b[2]
  \/ a[1] = b[1] /\ a[2] = b[2] /\ a[3] < b[3]

\* the MAX_CHANCE_CELLS first empty cells of that ranking
FirstRanked(sgn) ==
  LET keys == RankKeys(sgn)
  IN {<<k[2], k[3]>> : k \in
        {a \in keys : Cardinality({b \in keys : RankedBefore(b, a)})
                        < MAX_CHANCE_CELLS}}

\* at most MAX_CHANCE_CELLS empty cells: all of them, once each
AllEnumerated ==
  ~CapForces => /\ ChanceChosen = ChanceEmpty
                /\ Len(chance.cells) = Cardinality(ChanceEmpty)

\* C9 as stated: above the cap the cells are the 6 empty cells with the
\* fewest occupied neighbours, ties in row-major order; else all of them.
C9_FewestNeighbours ==
  chance # <<>> =>
    /\ CapForces => /\ ChanceChosen = FirstRanked(1)
                    /\ Len(chance.cells) = MAX_CHANCE_CELLS
    /\ AllEnumerated

\* C9 amended: above the cap the cells are the 6 empty cells with the most
\* occupied neighbours, ties in row-major order; else all of them.
C9_MostNeighbours ==
  chance # <<>> =>
    /\ CapForces => /\ ChanceChosen = FirstRanked(-1)
                    /\ Len(chance.cells) = MAX_CHANCE_CELLS
    /\ AllEnumerated

C9_Witness ==
  /\ CapForces
  /\ \E p \in ChanceChosen : \E q \in ChanceEmpty \ ChanceChosen :
       /\ ChanceAdj(p) = ChanceAdj(q)
       /\ p[2] > q[2]

\* C10: while a key stays in the table its depth never decreases, and an
\* insert for a key already present stores a strictly greater depth.
C10_DepthGrows ==
  /\ [][\A h \in DOMAIN tt \cap DOMAIN tt' : tt'[h].d >= tt[h].d]_vars
  /\ [](pc = "running" /\ Top.fn = "chance"
        /\ board_hash(Top.board) \in DOMAIN tt
          => tt[board_hash(Top.board)].d < Top.depth)

C10_Witness ==
  /\ ev.op = "insert"
  /\ ev.stored >= 1
  /\ ev.stored < ev.depth
  /\ Cardinality(DOMAIN tt) > 1

====
